---- MODULE Spec2Model ----
(***************************************************************************)
(* The my_vault program (programs/my_vault/src/lib.rs), of which           *)
(* forge_demo and token_mint are subsets: four instructions over the       *)
(* ledger's account records.  The account structs declare the constraint   *)
(* sets; the framework's loader evaluates them before the handler runs and *)
(* the runtime commits an instruction's writes only when it returns Ok.    *)
(***************************************************************************)
EXTENDS Integers, Sequences, FiniteSets, TLC

VARIABLES ledger,       \* address -> account record, as the runtime holds it
          pre,          \* the ledger before the last instruction
          last,         \* the last instruction: its inputs and its outcome
          initialized   \* state addresses initialize_with_pda succeeded for
                        \* before the last instruction

vars == <<ledger, pre, last, initialized>>

---------------------------------------------------------------------------
\* Addresses.  A Pubkey is modelled as a natural number.

KeypairAddress(n) == n
Alice == KeypairAddress(1)
Bob == KeypairAddress(2)
MintKey == KeypairAddress(3)

ProgramId == 10
SystemProgramId == 11
TokenProgramId == 12
RentSysvarId == 13
NativeLoaderId == 14
OtherProgramId == 15

\* b"state", the literal seed component
StateLiteral == 7

\* Bounds of the model
BumpWindow == 1
MaxAmount == 1

---------------------------------------------------------------------------
\* Address derivation (Pubkey::find_program_address), used by `seeds`/`bump`.

MaxBump == 255
SeedBase == 16
PdaOffset == 1000000

RECURSIVE FoldSeeds(_)
FoldSeeds(seeds) ==
    IF seeds = <<>> THEN 0
    ELSE FoldSeeds(SubSeq(seeds, 1, Len(seeds) - 1)) * SeedBase + seeds[Len(seeds)]

\* The hash of (seeds, bump, program id): collision-free, as the real one is
\* taken to be.
HashToAddress(seeds, bump, program) ==
    PdaOffset + ((FoldSeeds(seeds) * SeedBase + program) * (MaxBump + 1) + bump)

\* Whether the hash is a point of the curve (then it is no derived address).
OnCurve(seeds, bump, program) ==
    (FoldSeeds(seeds) + program + bump) % 3 = 1

NoAddress == 0

\* create_program_address: the address for an explicit bump, or none
CreateProgramAddress(seeds, bump, program) ==
    IF OnCurve(seeds, bump, program) THEN NoAddress
    ELSE HashToAddress(seeds, bump, program)

RECURSIVE SearchBump(_, _, _)
SearchBump(seeds, program, b) ==
    IF b < 0 THEN [found |-> FALSE, address |-> NoAddress, bump |-> 0]
    ELSE IF ~OnCurve(seeds, b, program)
         THEN [found |-> TRUE, address |-> HashToAddress(seeds, b, program), bump |-> b]
         ELSE SearchBump(seeds, program, b - 1)

\* derive(seeds, program id) -> (address, bump): from the maximum downward
FindProgramAddress(seeds, program) == SearchBump(seeds, program, MaxBump)

\* verify(candidate, seeds, program id)
VerifyAddress(candidate, seeds, program) ==
    LET d == FindProgramAddress(seeds, program)
    IN d.found /\ candidate = d.address

---------------------------------------------------------------------------
\* Account records and their data.

StateSpace == 8 + 8
MintSpace == 82
MintDecimals == 6

EmptyData == [len |-> 0, disc |-> "none", count |-> 0, decimals |-> 0, authority |-> 0]

\* The record of an address nothing was ever written to
EmptyAccount == [owner |-> SystemProgramId, lamports |-> 0, data |-> EmptyData,
                 executable |-> FALSE]

ProgramAccount == [owner |-> NativeLoaderId, lamports |-> 1, data |-> EmptyData,
                   executable |-> TRUE]

\* Rent::minimum_balance(space), scaled down
RentMinimum(space) == 1 + space \div 64

Payers == {Alice, Bob}

\* The derived addresses the ledger holds a record for: every hash of
\* ["state", payer] under the declared id within the bump window (canonical,
\* off-curve non-canonical, and on-curve ones), the derivation of ["state"]
\* alone, and the derivation of the same seeds by another program.
StateCandidates ==
    { HashToAddress(<<StateLiteral, p>>, b, ProgramId) :
          p \in Payers, b \in (MaxBump - BumpWindow)..MaxBump }
    \cup { FindProgramAddress(<<StateLiteral>>, ProgramId).address,
           FindProgramAddress(<<StateLiteral, Alice>>, OtherProgramId).address }

Programs == {ProgramId, SystemProgramId, TokenProgramId}

Accounts == {Alice, Bob, MintKey, RentSysvarId} \cup Programs \cup StateCandidates

InitialLedger ==
    [a \in Accounts |->
        IF a \in Programs THEN ProgramAccount
        ELSE IF a = RentSysvarId
             THEN [owner |-> NativeLoaderId, lamports |-> 1, data |-> EmptyData,
                   executable |-> FALSE]
        ELSE IF a = Alice THEN [EmptyAccount EXCEPT !.lamports = MaxAmount + 1]
        ELSE IF a = Bob THEN [EmptyAccount EXCEPT !.lamports = 1]
        ELSE EmptyAccount]

---------------------------------------------------------------------------
\* Cross-program invocation: the descriptor, the runtime's privilege check
\* and the two callee programs.

Meta(key, signer, writable) == [key |-> key, signer |-> signer, writable |-> writable]

Descriptor(program, ix, metas, lamports, space, owner, delegated) ==
    [program |-> program, ix |-> ix, accounts |-> metas, lamports |-> lamports,
     space |-> space, owner |-> owner, delegated |-> delegated]

Delegation(address, seeds, bump) == [address |-> address, seeds |-> seeds, bump |-> bump]

CpiOk(L) == [ok |-> TRUE, kind |-> "none", ledger |-> L]
CpiErr(kind, L) == [ok |-> FALSE, kind |-> kind, ledger |-> L]

\* A delegated authority is legitimate when the calling program derives the
\* address from the seeds it names.
DelegationDerivable(d) ==
    /\ d.address # NoAddress
    /\ CreateProgramAddress(d.seeds, d.bump, ProgramId) = d.address

DelegatedSigners(desc) ==
    { desc.delegated[i].address : i \in 1..Len(desc.delegated) }

\* The signer and writable flags a descriptor may carry, given the flags of
\* the instruction (tx) it is built in.
FlagsAvailable(tx, desc) ==
    \A i \in 1..Len(desc.accounts) :
        LET m == desc.accounts[i]
        IN /\ m.signer => (m.key \in tx.signers \/ m.key \in DelegatedSigners(desc))
           /\ m.writable => m.key \in tx.writables

\* system_program: transfer / create_account / allocate / assign
SystemProcess(L, desc) ==
    LET a1 == desc.accounts[1].key
    IN
    CASE desc.ix = "transfer" ->
           LET to == desc.accounts[2].key
           IN IF ~desc.accounts[1].signer THEN CpiErr("MissingRequiredSignature", L)
              ELSE IF L[a1].data.len # 0 \/ L[a1].owner # SystemProgramId
                   THEN CpiErr("InvalidArgument", L)
              ELSE IF L[a1].lamports < desc.lamports THEN CpiErr("InsufficientFunds", L)
              ELSE LET debited == [L EXCEPT ![a1].lamports = @ - desc.lamports]
                   IN CpiOk([debited EXCEPT ![to].lamports = @ + desc.lamports])
      [] desc.ix = "create_account" ->
           LET to == desc.accounts[2].key
           IN IF ~desc.accounts[1].signer \/ ~desc.accounts[2].signer
                   THEN CpiErr("MissingRequiredSignature", L)
              ELSE IF L[to].lamports > 0 \/ L[to].data.len # 0
                      \/ L[to].owner # SystemProgramId
                   THEN CpiErr("AccountAlreadyInUse", L)
              ELSE IF L[a1].data.len # 0 \/ L[a1].owner # SystemProgramId
                   THEN CpiErr("InvalidArgument", L)
              ELSE IF L[a1].lamports < desc.lamports THEN CpiErr("InsufficientFunds", L)
              ELSE LET debited == [L EXCEPT ![a1].lamports = @ - desc.lamports]
                   IN CpiOk([debited EXCEPT ![to].lamports = @ + desc.lamports,
                                            ![to].data.len = desc.space,
                                            ![to].owner = desc.owner])
      [] desc.ix = "allocate" ->
           IF ~desc.accounts[1].signer THEN CpiErr("MissingRequiredSignature", L)
           ELSE IF L[a1].data.len # 0 \/ L[a1].owner # SystemProgramId
                THEN CpiErr("AccountAlreadyInUse", L)
           ELSE CpiOk([L EXCEPT ![a1].data.len = desc.space])
      [] desc.ix = "assign" ->
           IF ~desc.accounts[1].signer THEN CpiErr("MissingRequiredSignature", L)
           ELSE IF L[a1].owner # SystemProgramId THEN CpiErr("InvalidArgument", L)
           ELSE CpiOk([L EXCEPT ![a1].owner = desc.owner])
      [] OTHER -> CpiErr("InvalidInstructionData", L)

\* token_program: initialize_mint2; its descriptor carries the decimals in
\* `space` and the mint authority in `owner`
TokenProcess(L, desc) ==
    LET m == desc.accounts[1].key
    IN IF desc.ix # "initialize_mint2" THEN CpiErr("InvalidInstructionData", L)
       ELSE IF L[m].owner # TokenProgramId \/ L[m].data.len # MintSpace
            THEN CpiErr("InvalidAccountData", L)
       ELSE IF L[m].data.disc = "Mint" THEN CpiErr("AlreadyInUse", L)
       ELSE CpiOk([L EXCEPT ![m].data = [len |-> MintSpace, disc |-> "Mint", count |-> 0,
                                         decimals |-> desc.space,
                                         authority |-> desc.owner]])

\* CpiContext::new / new_with_signer handed to invoke_signed: a descriptor is
\* built only with delegations the calling program derives and with flags an
\* authority is available for.
BuildError(tx, desc) ==
    IF \E i \in 1..Len(desc.delegated) : ~DelegationDerivable(desc.delegated[i])
        THEN "UnauthorizedDelegation"
    ELSE IF ~FlagsAvailable(tx, desc) THEN "InvalidAccountFlags"
    ELSE "none"

\* The host's dispatch of a built descriptor: it may signal its own bound,
\* and otherwise runs the callee on the ledger.
Dispatch(L, tx, desc) ==
    IF tx.hostFails THEN CpiErr("HostLimit", L)
    ELSE IF ~L[desc.program].executable THEN CpiErr("IncorrectProgramId", L)
    ELSE IF desc.program = SystemProgramId THEN SystemProcess(L, desc)
    ELSE IF desc.program = TokenProgramId THEN TokenProcess(L, desc)
    ELSE CpiErr("IncorrectProgramId", L)

\* One call within an instruction: r is the run so far (ok, kind, ledger and
\* the descriptors built); an earlier failure is propagated.
RunCpi(r, tx, desc) ==
    IF ~r.ok THEN r
    ELSE IF BuildError(tx, desc) # "none"
         THEN [r EXCEPT !.ok = FALSE, !.kind = BuildError(tx, desc)]
    ELSE LET c == Dispatch(r.ledger, tx, desc)
         IN [ok |-> c.ok, kind |-> c.kind, ledger |-> c.ledger,
             cpis |-> Append(r.cpis, desc)]

StartRun(L) == [ok |-> TRUE, kind |-> "none", ledger |-> L, cpis |-> <<>>]

---------------------------------------------------------------------------
\* The constraints the account structs declare.

\* Signer<'info> replaced by a type that checks nothing
SignerCheckSkipped(tx, key) == TRUE

\* Signer<'info>
SignerCheck(tx, key) == key \in tx.signers

\* #[account(mut)] left out
MutCheckSkipped(tx, key) == TRUE

\* #[account(mut)]
MutCheck(tx, key) == key \in tx.writables

\* A program slot that checks executability and not the address
ProgramCheckExecutableOnly(L, key, id) == L[key].executable

\* Program<'info, System>, Program<'info, Token>
ProgramCheck(L, key, id) == key = id /\ L[key].executable

\* Sysvar<'info, Rent>
SysvarCheck(key) == key = RentSysvarId

\* seeds = [b"state"]: the payer's key left out
StateSeedsLiteralOnly(payerKey) == <<StateLiteral>>

\* seeds = [b"state", payer.key().as_ref()]
StateSeeds(payerKey) == <<StateLiteral, payerKey>>

\* bump = <a bump the client supplies>: any bump whose hash is off the curve
AcceptedBumpAny(stateKey, payerKey) ==
    LET fits == { b \in 0..MaxBump :
                    /\ ~OnCurve(<<StateLiteral, payerKey>>, b, ProgramId)
                    /\ HashToAddress(<<StateLiteral, payerKey>>, b, ProgramId) = stateKey }
    IN IF fits = {} THEN -1 ELSE CHOOSE b \in fits : TRUE

\* seeds = [...], bump: the bump the state slot's address is accepted with,
\* the one find_program_address yields for the seeds under the declared id
\* (the canonical bump), or -1 when the address is not that derivation.
AcceptedBump(stateKey, payerKey) ==
    LET d == FindProgramAddress(StateSeeds(payerKey), ProgramId)
    IN IF VerifyAddress(stateKey, StateSeeds(payerKey), ProgramId) THEN d.bump ELSE -1

SeedsCheck(stateKey, payerKey) == AcceptedBump(stateKey, payerKey) >= 0

\* The authority the init of the state slot signs the creation with
StateAuthority(stateKey, payerKey) ==
    <<Delegation(stateKey, StateSeeds(payerKey), AcceptedBump(stateKey, payerKey))>>

Max(a, b) == IF a >= b THEN a ELSE b

\* The creation of an account owned by `owner`, funded by payer up to the
\* rent minimum: create_account for an address without lamports, and
\* transfer, allocate, assign for one that was funded before.  The system
\* program refuses an account that holds data or has an owner already.
CreateAccount(L, tx, payer, target, space, owner, delegated) ==
    LET sys == SystemProgramId
        rent == RentMinimum(space)
    IN IF L[target].lamports = 0
       THEN RunCpi(StartRun(L), tx,
                Descriptor(sys, "create_account",
                           <<Meta(payer, TRUE, TRUE), Meta(target, TRUE, TRUE)>>,
                           rent, space, owner, delegated))
       ELSE IF payer = target
            THEN [StartRun(L) EXCEPT !.ok = FALSE, !.kind = "TryingToInitPayerAsProgramAccount"]
       ELSE LET required == Max(rent - L[target].lamports, 0)
                funded == IF required > 0
                          THEN RunCpi(StartRun(L), tx,
                                   Descriptor(sys, "transfer",
                                       <<Meta(payer, TRUE, TRUE), Meta(target, FALSE, TRUE)>>,
                                       required, 0, 0, <<>>))
                          ELSE StartRun(L)
                allocated == RunCpi(funded, tx,
                                 Descriptor(sys, "allocate", <<Meta(target, TRUE, TRUE)>>,
                                            0, space, 0, delegated))
            IN RunCpi(allocated, tx,
                   Descriptor(sys, "assign", <<Meta(target, TRUE, TRUE)>>,
                              0, 0, owner, delegated))

\* init_if_needed: an account the owner holds already is taken as it is
InitAccountIfNeeded(L, tx, payer, target, space, owner, delegated) ==
    IF L[target].owner = owner THEN StartRun(L)
    ELSE CreateAccount(L, tx, payer, target, space, owner, delegated)

\* init, payer = payer, space = ...: must-be-uninitialized; the account is
\* always created, so one that exists already is refused.
InitAccount(L, tx, payer, target, space, owner, delegated) ==
    CreateAccount(L, tx, payer, target, space, owner, delegated)

\* A State stored without its discriminator
StateDataUntagged(count) ==
    [len |-> StateSpace, disc |-> "none", count |-> count, decimals |-> 0, authority |-> 0]

\* #[account] State { count }: what the exit of an Account<State> stores
StateData(count) ==
    [len |-> StateSpace, disc |-> "State", count |-> count, decimals |-> 0, authority |-> 0]

---------------------------------------------------------------------------
\* Instructions.  An outcome: ok or the first violation (kind, slot), the
\* ledger the instruction leaves if it is committed, the descriptors built,
\* whether the handler body ran, and what it logged.

Outcome(ok, kind, slot, L, cpis, handler, log) ==
    [ok |-> ok, kind |-> kind, slot |-> slot, ledger |-> L, cpis |-> cpis,
     handler |-> handler, log |-> log]

Violation(kind, slot, L, cpis) == Outcome(FALSE, kind, slot, L, cpis, FALSE, <<>>)

NoSlots == [payer |-> NoAddress, state |-> NoAddress, recipient |-> NoAddress,
            mint |-> NoAddress, system_program |-> NoAddress,
            token_program |-> NoAddress, rent |-> NoAddress]

\* initialize: no accounts, the handler logs
ExecInitialize(L, tx, slots, amount) ==
    Outcome(TRUE, "none", "none", L, <<>>, TRUE, <<"Program initialized">>)

\* The handler of initialize_with_pda
HandleInitializeWithPda(L, state) == [L EXCEPT ![state].data = StateData(0)]

\* InitializeWithPda, then initialize_with_pda
ExecInitializeWithPda(L, tx, slots, amount) ==
    IF ~SignerCheck(tx, slots.payer) THEN Violation("signer", "payer", L, <<>>)
    ELSE IF ~ProgramCheck(L, slots.system_program, SystemProgramId)
         THEN Violation("program", "system_program", L, <<>>)
    ELSE IF ~SeedsCheck(slots.state, slots.payer)
         THEN Violation("derivation", "state", L, <<>>)
    ELSE LET created == InitAccount(L, tx, slots.payer, slots.state, StateSpace,
                                    ProgramId, StateAuthority(slots.state, slots.payer))
         IN IF ~created.ok THEN Violation(created.kind, "state", L, created.cpis)
            ELSE IF ~MutCheck(tx, slots.payer)
                 THEN Violation("writable", "payer", L, created.cpis)
            ELSE Outcome(TRUE, "none", "none",
                         HandleInitializeWithPda(created.ledger, slots.state),
                         created.cpis, TRUE, <<"PDA account initialized">>)

\* CpiContext::new_with_signer with the payer's state seeds
TransferDescriptorWithAuthority(slots, amount) ==
    LET d == FindProgramAddress(<<StateLiteral, slots.payer>>, ProgramId)
    IN Descriptor(slots.system_program, "transfer",
                  <<Meta(slots.payer, TRUE, TRUE), Meta(slots.recipient, FALSE, TRUE)>>,
                  amount, 0, 0,
                  <<Delegation(d.address, <<StateLiteral, slots.payer>>, d.bump)>>)

\* The descriptor transfer_with_cpi builds: Transfer { from, to } with
\* CpiContext::new
TransferDescriptor(slots, amount) ==
    Descriptor(slots.system_program, "transfer",
               <<Meta(slots.payer, TRUE, TRUE), Meta(slots.recipient, FALSE, TRUE)>>,
               amount, 0, 0, <<>>)

\* let _ = transfer(cpi_ctx, amount); Ok(())
HandleTransferWithCpiIgnoringError(L, tx, slots, amount) ==
    LET r == RunCpi(StartRun(L), tx,
                 Descriptor(slots.system_program, "transfer",
                     <<Meta(slots.payer, TRUE, TRUE), Meta(slots.recipient, FALSE, TRUE)>>,
                     amount, 0, 0, <<>>))
    IN Outcome(TRUE, "none", "none", IF r.ok THEN r.ledger ELSE L, r.cpis, TRUE, <<>>)

\* The handler of transfer_with_cpi: transfer(cpi_ctx, amount)?; Ok(())
HandleTransferWithCpi(L, tx, slots, amount) ==
    LET r == RunCpi(StartRun(L), tx, TransferDescriptor(slots, amount))
    IN IF r.ok THEN Outcome(TRUE, "none", "none", r.ledger, r.cpis, TRUE, <<>>)
       ELSE Outcome(FALSE, r.kind, "none", L, r.cpis, TRUE, <<>>)

\* TransferWithCpi with the recipient's #[account(mut)] left out
ExecTransferWithCpiRecipientUnchecked(L, tx, slots, amount) ==
    IF ~(slots.payer \in tx.signers) THEN Violation("signer", "payer", L, <<>>)
    ELSE IF ~(slots.system_program = SystemProgramId /\ L[slots.system_program].executable)
         THEN Violation("program", "system_program", L, <<>>)
    ELSE IF ~(slots.payer \in tx.writables) THEN Violation("writable", "payer", L, <<>>)
    ELSE LET r == RunCpi(StartRun(L), tx,
                      Descriptor(slots.system_program, "transfer",
                          <<Meta(slots.payer, TRUE, TRUE),
                            Meta(slots.recipient, FALSE, TRUE)>>,
                          amount, 0, 0, <<>>))
         IN IF r.ok THEN Outcome(TRUE, "none", "none", r.ledger, r.cpis, TRUE, <<>>)
            ELSE Outcome(FALSE, r.kind, "none", L, r.cpis, TRUE, <<>>)

\* TransferWithCpi, then transfer_with_cpi
ExecTransferWithCpi(L, tx, slots, amount) ==
    IF ~SignerCheck(tx, slots.payer) THEN Violation("signer", "payer", L, <<>>)
    ELSE IF ~ProgramCheck(L, slots.system_program, SystemProgramId)
         THEN Violation("program", "system_program", L, <<>>)
    ELSE IF ~MutCheck(tx, slots.payer) THEN Violation("writable", "payer", L, <<>>)
    ELSE IF ~MutCheck(tx, slots.recipient) THEN Violation("writable", "recipient", L, <<>>)
    ELSE HandleTransferWithCpi(L, tx, slots, amount)

\* init, mint::decimals = 6, mint::authority = payer.key(): the creation of
\* the mint, owned by the token program, and its initialize_mint2
InitMint(L, tx, slots) ==
    LET created == InitAccount(L, tx, slots.payer, slots.mint, MintSpace,
                               TokenProgramId, <<>>)
    IN RunCpi(created, tx,
           Descriptor(slots.token_program, "initialize_mint2",
                      <<Meta(slots.mint, FALSE, TRUE)>>,
                      0, MintDecimals, slots.payer, <<>>))

\* InitializeToken, then initialize_token_mint
ExecInitializeTokenMint(L, tx, slots, amount) ==
    IF ~SignerCheck(tx, slots.payer) THEN Violation("signer", "payer", L, <<>>)
    ELSE IF ~ProgramCheck(L, slots.token_program, TokenProgramId)
         THEN Violation("program", "token_program", L, <<>>)
    ELSE IF ~ProgramCheck(L, slots.system_program, SystemProgramId)
         THEN Violation("program", "system_program", L, <<>>)
    ELSE IF ~SysvarCheck(slots.rent) THEN Violation("sysvar", "rent", L, <<>>)
    ELSE LET made == InitMint(L, tx, slots)
         IN IF ~made.ok THEN Violation(made.kind, "mint", L, made.cpis)
            ELSE IF ~MutCheck(tx, slots.payer)
                 THEN Violation("writable", "payer", L, made.cpis)
            ELSE Outcome(TRUE, "none", "none", made.ledger, made.cpis, TRUE,
                         <<"Token mint initialized">>)

\* The dispatcher: the instruction's tag selects the account struct and the
\* handler.
Dispatcher(ix, L, tx, slots, amount) ==
    CASE ix = "initialize" -> ExecInitialize(L, tx, slots, amount)
      [] ix = "initialize_with_pda" -> ExecInitializeWithPda(L, tx, slots, amount)
      [] ix = "transfer_with_cpi" -> ExecTransferWithCpi(L, tx, slots, amount)
      [] ix = "initialize_token_mint" -> ExecInitializeTokenMint(L, tx, slots, amount)

---------------------------------------------------------------------------
\* The state machine: one action per instruction.  The runtime commits the
\* ledger an instruction leaves only when it returns Ok.

Tx(signers, writables, hostFails) ==
    [signers |-> signers, writables |-> writables, hostFails |-> hostFails]

InitializedNow ==
    initialized \cup (IF last.ix = "initialize_with_pda" /\ last.ok
                      THEN {last.slots.state} ELSE {})

\* The ledger the runtime keeps after an instruction with outcome out
Committed(out) == IF out.ok THEN out.ledger ELSE ledger

\* The record of an executed instruction
Executed(ix, tx, slots, amount, out) ==
    [ix |-> ix, tx |-> tx, slots |-> slots, amount |-> amount,
     ok |-> out.ok, kind |-> out.kind, slot |-> out.slot,
     cpis |-> out.cpis, handler |-> out.handler, log |-> out.log]

\* What a client may get wrong in the account list it submits: the inputs of
\* an instruction are a well-formed list with one of these sets of defects.
Unless(defects, d, key) == IF d \in defects THEN {} ELSE {key}

SystemProgramSlot(defects) ==
    IF "wrong_system_program" \in defects THEN TokenProgramId ELSE SystemProgramId

PdaDefects ==
    { {}, {"unsigned"}, {"payer_readonly"}, {"target_readonly"},
      {"wrong_system_program"}, {"host_fails"}, {"unsigned", "wrong_system_program"} }

TransferDefects ==
    { {}, {"unsigned"}, {"payer_readonly"}, {"target_readonly"},
      {"wrong_system_program"}, {"host_fails"} }

MintDefects ==
    { {}, {"unsigned"}, {"target_unsigned"}, {"payer_readonly"}, {"target_readonly"},
      {"wrong_system_program"}, {"wrong_token_program"}, {"wrong_rent"}, {"host_fails"} }

\* The addresses that have a private key: only these can sign an instruction
Keypairs == {Alice, Bob, MintKey}

\* The mint slot: a fresh keypair's address, or a derived state address
MintInputs == {MintKey, FindProgramAddress(StateSeeds(Alice), ProgramId).address}

\* The state addresses a client submits with payer p: the hashes of p's own
\* seeds in the window, and three derivations that are not p's.
StateInputs(p) ==
    { HashToAddress(StateSeeds(p), b, ProgramId) : b \in (MaxBump - BumpWindow)..MaxBump }
    \cup { FindProgramAddress(<<StateLiteral>>, ProgramId).address,
           FindProgramAddress(StateSeeds(Alice), OtherProgramId).address }
    \cup { FindProgramAddress(StateSeeds(q), ProgramId).address : q \in Payers \ {p} }

RecipientInputs == {Alice, Bob, FindProgramAddress(StateSeeds(Alice), ProgramId).address}

Init ==
    /\ ledger = InitialLedger
    /\ pre = InitialLedger
    /\ last = [ix |-> "none", tx |-> Tx({}, {}, FALSE), slots |-> NoSlots, amount |-> 0,
               ok |-> TRUE, kind |-> "none", slot |-> "none", cpis |-> <<>>,
               handler |-> FALSE, log |-> <<>>]
    /\ initialized = {}

Initialize ==
    \E out \in {Dispatcher("initialize", ledger, Tx({}, {}, FALSE), NoSlots, 0)} :
        /\ ledger' = Committed(out)
        /\ pre' = ledger
        /\ last' = Executed("initialize", Tx({}, {}, FALSE), NoSlots, 0, out)
        /\ initialized' = InitializedNow

InitializeWithPda ==
    \E payer \in Payers, defects \in PdaDefects :
      \E state \in StateInputs(payer) :
        LET tx == Tx(Unless(defects, "unsigned", payer),
                     Unless(defects, "payer_readonly", payer)
                         \cup Unless(defects, "target_readonly", state),
                     "host_fails" \in defects)
            slots == [NoSlots EXCEPT !.payer = payer, !.state = state,
                                     !.system_program = SystemProgramSlot(defects)]
        IN \E out \in {Dispatcher("initialize_with_pda", ledger, tx, slots, 0)} :
              /\ ledger' = Committed(out)
              /\ pre' = ledger
              /\ last' = Executed("initialize_with_pda", tx, slots, 0, out)
              /\ initialized' = InitializedNow

TransferWithCpi ==
    \E payer \in Payers, recipient \in RecipientInputs, amount \in 0..MaxAmount,
       defects \in TransferDefects :
        LET tx == Tx(Unless(defects, "unsigned", payer),
                     IF payer = recipient
                     THEN IF defects \cap {"payer_readonly", "target_readonly"} = {}
                          THEN {payer} ELSE {}
                     ELSE Unless(defects, "payer_readonly", payer)
                              \cup Unless(defects, "target_readonly", recipient),
                     "host_fails" \in defects)
            slots == [NoSlots EXCEPT !.payer = payer, !.recipient = recipient,
                                     !.system_program = SystemProgramSlot(defects)]
        IN \E out \in {Dispatcher("transfer_with_cpi", ledger, tx, slots, amount)} :
              /\ ledger' = Committed(out)
              /\ pre' = ledger
              /\ last' = Executed("transfer_with_cpi", tx, slots, amount, out)
              /\ initialized' = InitializedNow

InitializeTokenMint ==
    \E payer \in Payers, mint \in MintInputs, defects \in MintDefects :
        LET tx == Tx(Unless(defects, "unsigned", payer)
                         \cup (Unless(defects, "target_unsigned", mint) \cap Keypairs),
                     Unless(defects, "payer_readonly", payer)
                         \cup Unless(defects, "target_readonly", mint),
                     "host_fails" \in defects)
            slots == [NoSlots EXCEPT
                        !.payer = payer, !.mint = mint,
                        !.system_program = SystemProgramSlot(defects),
                        !.token_program = IF "wrong_token_program" \in defects
                                          THEN SystemProgramId ELSE TokenProgramId,
                        !.rent = IF "wrong_rent" \in defects
                                 THEN SystemProgramId ELSE RentSysvarId]
        IN \E out \in {Dispatcher("initialize_token_mint", ledger, tx, slots, 0)} :
              /\ ledger' = Committed(out)
              /\ pre' = ledger
              /\ last' = Executed("initialize_token_mint", tx, slots, 0, out)
              /\ initialized' = InitializedNow

Next ==
    \/ Initialize
    \/ InitializeWithPda
    \/ TransferWithCpi
    \/ InitializeTokenMint

Spec == Init /\ [][Next]_vars

---------------------------------------------------------------------------
\* Properties.  They speak of the last instruction (last), the ledger before
\* it (pre) and after it (ledger).

Ran(ix) == last.ix = ix

Payer == last.slots.payer
Signed == Payer \in last.tx.signers

\* The address derive yields for ["state", payer] under the declared id
DerivedState(p) == FindProgramAddress(<<StateLiteral, p>>, ProgramId).address

CanonicalBump(p) == FindProgramAddress(<<StateLiteral, p>>, ProgramId).bump

\* The last instruction's account list had no defect the validator or the
\* host could object to, apart from the state of the accounts themselves.
WellFormedPda ==
    /\ Signed
    /\ {Payer, last.slots.state} \subseteq last.tx.writables
    /\ last.slots.system_program = SystemProgramId
    /\ last.slots.state = DerivedState(Payer)
    /\ ~last.tx.hostFails

\* Every constraint the account struct of the last instruction declares
\* holds of the accounts it was given, stated on the raw records.
SlotsValid ==
    CASE Ran("initialize_with_pda") ->
           /\ Signed
           /\ {Payer, last.slots.state} \subseteq last.tx.writables
           /\ last.slots.system_program = SystemProgramId
           /\ last.slots.state = DerivedState(Payer)
           /\ pre[last.slots.state].owner = SystemProgramId
           /\ pre[last.slots.state].data.len = 0
      [] Ran("transfer_with_cpi") ->
           /\ Signed
           /\ {Payer, last.slots.recipient} \subseteq last.tx.writables
           /\ last.slots.system_program = SystemProgramId
      [] Ran("initialize_token_mint") ->
           /\ Signed
           /\ {Payer, last.slots.mint} \subseteq last.tx.writables
           /\ last.slots.mint \in last.tx.signers
           /\ last.slots.system_program = SystemProgramId
           /\ last.slots.token_program = TokenProgramId
           /\ last.slots.rent = RentSysvarId
           /\ pre[last.slots.mint].owner = SystemProgramId
           /\ pre[last.slots.mint].data.len = 0
      [] OTHER -> TRUE

\* C1: once initialize_with_pda has succeeded for a state address, every
\* later initialize_with_pda naming that address fails, the record at the
\* address is no longer an uninitialized one, the ledger is left as it was,
\* and when the account list is otherwise well formed the failure is the
\* init-state violation (the account is already in use) of the state slot.
C1_NoReinitialization ==
    (Ran("initialize_with_pda") /\ last.slots.state \in initialized) =>
        /\ ~last.ok
        /\ ~last.handler
        /\ pre[last.slots.state].owner = ProgramId
        /\ pre[last.slots.state].data.len # 0
        /\ ledger = pre
        /\ WellFormedPda => (last.kind = "AccountAlreadyInUse" /\ last.slot = "state")

C1_Witness ==
    /\ Ran("initialize_with_pda")
    /\ last.slots.state \in initialized
    /\ WellFormedPda
    /\ last.kind = "AccountAlreadyInUse"

\* C2: when any slot of the last instruction violates a constraint of its
\* account struct, the instruction fails, its handler body has not run and
\* the ledger is what it was; a handler runs only on slots that are all
\* valid; and a failed instruction leaves every record unchanged.
C2_AtomicValidation ==
    /\ ~SlotsValid => (~last.ok /\ ~last.handler /\ last.log = <<>> /\ ledger = pre)
    /\ last.handler => SlotsValid
    /\ ~last.ok => (ledger = pre /\ last.kind # "none")

C2_Witness ==
    /\ Ran("transfer_with_cpi")
    /\ Signed
    /\ last.slots.recipient \notin last.tx.writables
    /\ ~last.ok
    /\ last.kind = "writable"
    /\ last.slot = "recipient"

\* C3: when a handler has run, every account it forwarded in a descriptor is
\* one of the instruction's slots and passed the constraints of its slot: in
\* transfer_with_cpi the payer signed and is writable, the recipient (an
\* UncheckedAccount with mut) is writable, and the program called is the
\* validated system_program slot.
C3_HandlersSeeValidatedAccounts ==
    (last.handler /\ Ran("transfer_with_cpi")) =>
        /\ Signed
        /\ Payer \in last.tx.writables
        /\ last.slots.recipient \in last.tx.writables
        /\ last.slots.system_program = SystemProgramId
        /\ \A i \in 1..Len(last.cpis) :
             /\ last.cpis[i].program = last.slots.system_program
             /\ \A j \in 1..Len(last.cpis[i].accounts) :
                  last.cpis[i].accounts[j].key \in {Payer, last.slots.recipient}

C3_Witness ==
    /\ Ran("transfer_with_cpi")
    /\ last.handler
    /\ last.ok
    /\ Len(last.cpis) = 1
    /\ last.slots.recipient # Payer

\* C4: verify accepts the address derive yields and no other address, for
\* the seeds of every payer under the declared id and under another id; and
\* initialize_with_pda succeeds only on the state address derived from
\* ["state", payer] under the declared program id, any other address being
\* refused as a derivation violation of the state slot.
C4_VerifyMatchesDerive ==
    /\ \A p \in Payers : \A prog \in {ProgramId, OtherProgramId} :
         LET d == FindProgramAddress(<<StateLiteral, p>>, prog)
         IN /\ d.found
            /\ VerifyAddress(d.address, <<StateLiteral, p>>, prog)
            /\ \A a \in Accounts \ {d.address} :
                 ~VerifyAddress(a, <<StateLiteral, p>>, prog)
    /\ (Ran("initialize_with_pda") /\ last.ok) => last.slots.state = DerivedState(Payer)
    /\ (Ran("initialize_with_pda") /\ Signed /\ last.slots.system_program = SystemProgramId
            /\ last.slots.state # DerivedState(Payer))
         => (~last.ok /\ last.kind = "derivation" /\ last.slot = "state")

C4_Witness ==
    /\ Ran("initialize_with_pda")
    /\ last.ok
    /\ last.slots.state = DerivedState(Payer)
    /\ ledger[last.slots.state].owner = ProgramId

\* C5: derive returns the first bump, from the maximum downward, whose hash
\* is off the curve; and a state address produced from the payer's seeds
\* with any other bump is refused by initialize_with_pda, also when that
\* address is off the curve.
C5_CanonicalBumpOnly ==
    /\ \A p \in Payers :
         /\ ~OnCurve(<<StateLiteral, p>>, CanonicalBump(p), ProgramId)
         /\ \A b \in (CanonicalBump(p) + 1)..MaxBump : OnCurve(<<StateLiteral, p>>, b, ProgramId)
    /\ Ran("initialize_with_pda") =>
         \A b \in 0..MaxBump :
            (b # CanonicalBump(Payer)
               /\ last.slots.state = HashToAddress(<<StateLiteral, Payer>>, b, ProgramId))
            => /\ ~last.ok
               /\ ledger = pre
               /\ (Signed /\ last.slots.system_program = SystemProgramId)
                    => last.kind = "derivation"

C5_Witness ==
    /\ Ran("initialize_with_pda")
    /\ \E b \in 0..MaxBump :
         /\ b # CanonicalBump(Payer)
         /\ ~OnCurve(<<StateLiteral, Payer>>, b, ProgramId)
         /\ last.slots.state = HashToAddress(<<StateLiteral, Payer>>, b, ProgramId)
    /\ last.kind = "derivation"

UsesSystemProgram ==
    Ran("initialize_with_pda") \/ Ran("transfer_with_cpi") \/ Ran("initialize_token_mint")

\* C6 as stated: an account in the system_program slot that the system
\* program id does not own always fails validation.
C6_OwnerOfProgramSlot ==
    (UsesSystemProgram /\ pre[last.slots.system_program].owner # SystemProgramId)
        => ~last.ok

\* C6, amended: a program slot is checked by address, not by owner: an
\* account in the system_program or token_program slot whose address is not
\* the system or token program id always fails validation with a program-id
\* violation, whatever its owner and other fields; and an account in an init
\* slot (state, mint) that the system program does not own always fails and
\* leaves the ledger as it was.
C6_ProgramSlotsByAddress ==
    /\ (UsesSystemProgram /\ last.slots.system_program # SystemProgramId)
         => (~last.ok /\ (Signed => last.kind = "program"))
    /\ (Ran("initialize_token_mint") /\ last.slots.token_program # TokenProgramId)
         => (~last.ok /\ (Signed => (last.kind = "program" /\ last.slot = "token_program")))
    /\ (Ran("initialize_with_pda") /\ pre[last.slots.state].owner # SystemProgramId)
         => (~last.ok /\ ledger = pre)
    /\ (Ran("initialize_token_mint") /\ pre[last.slots.mint].owner # SystemProgramId)
         => (~last.ok /\ ledger = pre)

C6_Witness ==
    /\ Ran("transfer_with_cpi")
    /\ Signed
    /\ last.slots.system_program = TokenProgramId
    /\ pre[last.slots.system_program].executable
    /\ last.kind = "program"
    /\ last.slot = "system_program"

C8_DelegationOnlyForDerived ==
    \A i \in 1..Len(last.cpis) :
        LET d == last.cpis[i]
        IN /\ \A j \in 1..Len(d.delegated) :
                /\ ~OnCurve(d.delegated[j].seeds, d.delegated[j].bump, ProgramId)
                /\ d.delegated[j].address
                     = HashToAddress(d.delegated[j].seeds, d.delegated[j].bump, ProgramId)
                /\ d.delegated[j].address = DerivedState(Payer)
           /\ \A j \in 1..Len(d.accounts) :
                d.accounts[j].signer =>
                    \/ d.accounts[j].key \in last.tx.signers
                    \/ \E k \in 1..Len(d.delegated) : d.delegated[k].address = d.accounts[j].key
           /\ Ran("transfer_with_cpi") =>
                /\ d.delegated = <<>>
                /\ d.program = SystemProgramId
                /\ {d.accounts[j].key : j \in {k \in 1..Len(d.accounts) : d.accounts[k].signer}}
                     = {Payer}
                /\ Signed

C8_Witness ==
    /\ Ran("transfer_with_cpi")
    /\ last.ok
    /\ Len(last.cpis) = 1
    /\ last.cpis[1].delegated = <<>>
    /\ \E a \in initialized : ledger[a].owner = ProgramId

\* C9: when payer did not sign, transfer_with_cpi and initialize_with_pda
\* fail with the signer violation of the payer slot before any descriptor is
\* built or handler run, and no record changes; and initialize_token_mint
\* whose mint has no signature and no delegation, the list being otherwise
\* valid, fails (with InvalidAccountFlags, before any descriptor is built,
\* when the mint's address holds no lamports yet): no descriptor naming the
\* mint as a signer is built.
C9_SignerNeedsAuthority ==
    /\ ((Ran("transfer_with_cpi") \/ Ran("initialize_with_pda")) /\ ~Signed) =>
         /\ ~last.ok
         /\ last.kind = "signer"
         /\ last.slot = "payer"
         /\ last.cpis = <<>>
         /\ ~last.handler
         /\ ledger = pre
    /\ (Ran("initialize_token_mint") /\ Signed /\ last.slots.mint \notin last.tx.signers
            /\ last.slots.token_program = TokenProgramId
            /\ last.slots.system_program = SystemProgramId
            /\ last.slots.rent = RentSysvarId)
         => /\ ~last.ok
            /\ ledger = pre
            /\ pre[last.slots.mint].lamports = 0
                 => (last.kind = "InvalidAccountFlags" /\ last.cpis = <<>>)
            /\ \A i \in 1..Len(last.cpis) : \A j \in 1..Len(last.cpis[i].accounts) :
                 last.cpis[i].accounts[j].signer => last.cpis[i].accounts[j].key = Payer

C9_Witness ==
    /\ Ran("transfer_with_cpi")
    /\ ~Signed
    /\ last.amount > 0
    /\ pre[Payer].lamports >= last.amount
    /\ last.kind = "signer"

\* C10 as stated: on success payer's balance decreases by exactly amount and
\* recipient's increases by exactly amount.
C10_TransferMovesAmount ==
    (Ran("transfer_with_cpi") /\ last.ok) =>
        /\ ledger[Payer].lamports = pre[Payer].lamports - last.amount
        /\ ledger[last.slots.recipient].lamports
             = pre[last.slots.recipient].lamports + last.amount

\* C10, amended: transfer_with_cpi is all-or-nothing.  On success with payer
\* and recipient distinct, payer's balance decreases by exactly amount and
\* recipient's increases by exactly amount; with payer and recipient the same
\* account its balance is unchanged; in both cases their sum is unchanged and
\* no other lamports, no owner and no data change, and the one descriptor
\* built names from = payer, to = recipient and the amount.  A failure of the
\* system-program call (payer holds fewer than amount lamports, the host
\* signals its bound) is the instruction's failure and changes nothing.
C10_TransferConserves ==
    Ran("transfer_with_cpi") =>
        LET r == last.slots.recipient
        IN /\ last.ok =>
                /\ Payer # r =>
                     /\ ledger[Payer].lamports = pre[Payer].lamports - last.amount
                     /\ ledger[r].lamports = pre[r].lamports + last.amount
                /\ Payer = r => ledger = pre
                /\ pre[Payer].lamports >= last.amount
                /\ ~last.tx.hostFails
                /\ \A a \in Accounts \ {Payer, r} : ledger[a] = pre[a]
                /\ \A a \in Accounts :
                     ledger[a].owner = pre[a].owner /\ ledger[a].data = pre[a].data
                /\ Len(last.cpis) = 1
                /\ last.cpis[1].accounts[1].key = Payer
                /\ last.cpis[1].accounts[2].key = r
                /\ last.cpis[1].lamports = last.amount
           /\ ~last.ok => ledger = pre
           /\ (SlotsValid /\ last.tx.hostFails) => (~last.ok /\ last.kind = "HostLimit")
           /\ (SlotsValid /\ ~last.tx.hostFails /\ pre[Payer].lamports < last.amount)
                => (~last.ok /\ last.kind = "InsufficientFunds")

C10_Witness ==
    /\ Ran("transfer_with_cpi")
    /\ last.ok
    /\ last.amount > 0
    /\ Payer # last.slots.recipient
    /\ ledger[last.slots.recipient].lamports = pre[last.slots.recipient].lamports + last.amount

====
